---- MODULE Spec2Model ----
(***************************************************************************)
(* System-Monitor-with-Rust: the App aggregation state (src/app.rs) driven *)
(* by the main loop (src/main.rs).                                         *)
(*                                                                         *)
(* Numbers.  u64 byte counters are naturals; the model keeps them below    *)
(* 2^31, where `as f64` is exact and `as u64` never saturates.  An f32 is  *)
(* a record [nan, num, den]: NaN, or the exact reduced fraction num/den    *)
(* (rounding of f32 arithmetic is not modelled).  Durations are integer    *)
(* milliseconds.  Option<T> is a sequence of length 0 (None) or 1 (Some).  *)
(***************************************************************************)
EXTENDS Integers, Sequences, FiniteSets, TLC

VARIABLES
    system,             \* App.system: the readings of the last refresh_all
    cpu_history,        \* App.cpu_history: VecDeque<Vec<f32>>
    cpu_history_len,    \* App.cpu_history_len
    memory_history,     \* App.memory_history: VecDeque<(u64, u64)>
    network_history,    \* App.network_history: VecDeque<(u64, u64)>
    prev_network_data,  \* App.prev_network_data: Option<(u64, u64)>
    cpu_average,        \* App.cpu_average: f32
    cpu_scroll,         \* App.cpu_scroll
    pc,                 \* position of main's loop
    elapsed,            \* last_tick.elapsed() in ms
    top,                \* Option of the list the last render got from top_processes
    feed,               \* which readings the metrics provider may return
    ticks,              \* history: number of completed App::update calls
    cpu_pushed,         \* history: every value pushed onto cpu_history
    memory_pushed,      \* history: every value pushed onto memory_history
    network_pushed,     \* history: every value pushed onto network_history
    tick_prev,          \* history: prev_network_data on entry to the last update
    tick_elapsed,       \* history: last_tick.elapsed() read by the last tick check
    terminal,           \* the terminal modes main has switched on
    frame,              \* Option of what the last render read through the App's accessors
    quit,               \* history: a quit key ('q' or Esc) has been read
    call,               \* Option of <<function, argument>>: a helper function under test
    ret                 \* Option of the value that call returned

vars == <<system, cpu_history, cpu_history_len, memory_history, network_history,
          prev_network_data, cpu_average, cpu_scroll, pc, elapsed, top, feed,
          ticks, cpu_pushed, memory_pushed, network_pushed, tick_prev, tick_elapsed,
          terminal, frame, quit, call, ret>>

(***************************************************************************)
(* Bounds                                                                  *)
(***************************************************************************)
MaxTicks == 2       \* updates explored with freely chosen readings
WindowTicks == 242  \* updates explored with the scripted readings
MaxCores == 3       \* logical cores of the machine: 0..MaxCores
MaxProcs == 11      \* entries of a process table: 0..MaxProcs
MaxTenths == 1000   \* classifier arguments: -5.0 .. MaxTenths / 10 in steps of 0.1
MaxDigits == 6      \* base-1024 digits of a byte count
MaxDays == 2        \* days of an uptime
LiveTicks == 3      \* updates explored by the fair specification

(***************************************************************************)
(* Program constants                                                       *)
(***************************************************************************)
history_len == 60 * 4
tick_rate == 250
RATE_INTERVAL_MS == 250
TOP_COUNT == 10

None == << >>
Some(x) == << x >>

(***************************************************************************)
(* f32 values                                                              *)
(***************************************************************************)
RECURSIVE Gcd(_, _)
Gcd(a, b) == IF b = 0 THEN a ELSE Gcd(b, a % b)

NaN == [nan |-> TRUE, num |-> 0, den |-> 0]
Frac(n, d) == LET g == Gcd(n, d) IN [nan |-> FALSE, num |-> n \div g, den |-> d \div g]
Zero == [nan |-> FALSE, num |-> 0, den |-> 1]

\* IEEE division of a non-negative sum by a count: 0.0 / 0.0 is NaN.
\* (x / 0.0 with x > 0 is +inf; no sum of an empty list is positive.)
F32Div(n, d) == IF d = 0 THEN NaN ELSE Frac(n, d)

RECURSIVE SumSeq(_)
SumSeq(s) == IF s = << >> THEN 0 ELSE Head(s) + SumSeq(Tail(s))

saturating_sub(a, b) == IF a >= b THEN a - b ELSE 0

Min(a, b) == IF a <= b THEN a ELSE b

\* The last n elements of s (all of s when it is shorter).
LastN(s, n) == SubSeq(s, Len(s) - Min(n, Len(s)) + 1, Len(s))


(***************************************************************************)
(* The metrics provider (sysinfo::System).  A reading is what one          *)
(* refresh_all leaves in App.system.  A process is <<name, cpu, memory>>;  *)
(* the table is the sequence in which processes().values() yields them.    *)
(***************************************************************************)
Reading(cpus, mem, nets, procs) ==
    [cpus |-> cpus, used_memory |-> mem[1], total_memory |-> mem[2],
     networks |-> nets, processes |-> procs]

CpuBases == {5, 10}
CpuSample(b, cores) == [i \in 1..cores |-> b * i]

ProcTable3 == << <<1, 50, 100>>, <<2, 50, 200>>, <<3, 10, 300>> >>
MemReadings == { <<0, 0, << >> >>, <<512, 1024, ProcTable3>> }

NetReadings ==
    { << >>,
      << <<1000, 2000>> >>,
      << <<1000, 1500>>, <<500, 500>> >>,
      << <<5000, 0>> >>,
      << <<4000, 0>> >> }

AnyReadings(cores) ==
    { Reading(CpuSample(b, cores), m, n, m[3]) :
        b \in CpuBases, m \in MemReadings, n \in NetReadings }

\* The n-th reading of the scripted provider: consecutive readings differ in
\* every metric, the received counter grows and the transmitted counter
\* falls back to 0 every fifth reading.
ScriptReading(n, cores) ==
    Reading([i \in 1..cores |-> (7 * n + 13 * i) % 101],
            <<n, 1024>>,
            << <<5 * n * (n + 1), (n % 5) * 100>>, <<n % 3, 0>> >>,
            IF n % 2 = 0 THEN ProcTable3 ELSE << >>)

Readings(f, n, cores) ==
    CASE f = "any" -> AnyReadings(cores)
      [] f = "script" -> {ScriptReading(n, cores)}
      [] f = "live" -> {Reading(CpuSample(b, cores), <<512, 1024>>, << <<1000 * n, 0>> >>, << >>) :
                          b \in CpuBases}
      [] OTHER -> {}

TickBound(f) ==
    CASE f = "any" -> MaxTicks
      [] f = "script" -> WindowTicks
      [] f = "live" -> LiveTicks
      [] OTHER -> 0

ProcCpuVals == {10, 50}
ProcTables ==
    UNION { { [i \in 1..n |-> <<i, c[i], 100 * i>>] : c \in [1..n -> ProcCpuVals] } :
            n \in 0..MaxProcs }

(***************************************************************************)
(* App (src/app.rs)                                                        *)
(***************************************************************************)
\* mutation: the eviction takes the newest element (pop_back)
push_cpu_pop_back(h, cap, x) ==
    LET a == Append(h, x) IN IF Len(a) > cap THEN SubSeq(a, 1, Len(a) - 1) ELSE a

\* mutation: the eviction starts one element early (>= for >)
push_memory_early(h, cap, x) ==
    LET a == Append(h, x) IN IF Len(a) >= cap THEN Tail(a) ELSE a

\* mutation: a full buffer drops its older half
push_network_drain(h, cap, x) ==
    LET a == Append(h, x) IN IF Len(a) > cap THEN SubSeq(a, cap \div 2 + 1, Len(a)) ELSE a

\* push_back, then pop_front when the length exceeds the limit
push_cpu(h, cap, x) ==
    LET a == Append(h, x) IN IF Len(a) > cap THEN Tail(a) ELSE a

push_memory(h, cap, x) ==
    LET a == Append(h, x) IN IF Len(a) > cap THEN Tail(a) ELSE a

push_network(h, cap, x) ==
    LET a == Append(h, x) IN IF Len(a) > cap THEN Tail(a) ELSE a

\* cpu_usage.iter().sum::<f32>() / cpu_usage.len() as f32
cpu_mean(cpu_usage) == F32Div(SumSeq(cpu_usage), Len(cpu_usage))

\* totals over all interfaces
total_received(sys) == SumSeq([i \in 1..Len(sys.networks) |-> sys.networks[i][1]])
total_transmitted(sys) == SumSeq([i \in 1..Len(sys.networks) |-> sys.networks[i][2]])

\* mutation: plain subtraction for saturating_sub
speed_signed(cur, prev) == ((cur - prev) * 1000) \div RATE_INTERVAL_MS

\* ((cur.saturating_sub(prev) as f64) / 0.25) as u64
speed(cur, prev) == (saturating_sub(cur, prev) * 1000) \div RATE_INTERVAL_MS

\* mutation: the first tick pushes a rate against a zero baseline
network_step_no_warmup(h, cap, prev, rx, tx) ==
    push_network(h, cap, IF prev = None THEN <<speed(rx, 0), speed(tx, 0)>>
                         ELSE <<speed(rx, prev[1][1]), speed(tx, prev[1][2])>>)

\* the new network_history of update_network_data
network_step(h, cap, prev, rx, tx) ==
    IF prev = None THEN h
    ELSE push_network(h, cap, <<speed(rx, prev[1][1]), speed(tx, prev[1][2])>>)

\* mutation: the snapshot is stored only where a rate was computed
next_prev_inside_if(prev, rx, tx) == IF prev = None THEN None ELSE << <<rx, tx>> >>

\* the new prev_network_data of update_network_data
next_prev(prev, rx, tx) == Some(<<rx, tx>>)

current_cpu_usage(h) == IF h = << >> THEN << >> ELSE h[Len(h)]

memory_usage_percent(sys) ==
    IF sys.total_memory > 0 THEN Frac(sys.used_memory * 100, sys.total_memory) ELSE Zero

\* mutation: ascending comparison (a.1.partial_cmp(&b.1))
cpu_cmp_ascending(a, b) ==
    IF a[2] < b[2] THEN "Less" ELSE IF a[2] > b[2] THEN "Greater" ELSE "Equal"

\* b.1.partial_cmp(&a.1): the order of a relative to b in the sorted list
cpu_cmp(a, b) ==
    IF b[2] < a[2] THEN "Less" ELSE IF b[2] > a[2] THEN "Greater" ELSE "Equal"

\* mutation: an unstable sort, equal elements change places
RECURSIVE SortedInsert_unstable(_, _)
SortedInsert_unstable(s, x) ==
    IF s = << >> THEN <<x>>
    ELSE IF Head(s)[2] > x[2]
         THEN <<Head(s)>> \o SortedInsert_unstable(Tail(s), x)
         ELSE <<x>> \o s

\* Vec::sort_by is a stable sort: x, which follows every element of s in the
\* input, goes behind every element it is not strictly ordered before.
RECURSIVE SortedInsert(_, _)
SortedInsert(s, x) ==
    IF s = << >> THEN <<x>>
    ELSE IF cpu_cmp(Head(s), x) # "Greater"
         THEN <<Head(s)>> \o SortedInsert(Tail(s), x)
         ELSE <<x>> \o s

RECURSIVE sort_by(_)
sort_by(s) ==
    IF s = << >> THEN << >>
    ELSE SortedInsert(sort_by(SubSeq(s, 1, Len(s) - 1)), s[Len(s)])

take(s, n) == SubSeq(s, 1, Min(n, Len(s)))

top_processes(sys) == take(sort_by(sys.processes), TOP_COUNT)

(***************************************************************************)
(* Helper functions (src/system_info.rs, App::format_bytes).               *)
(*                                                                         *)
(* A classifier argument is <<"num", t>>, the f32 t / 10, or <<"nan", 0>>. *)
(* A byte count is the sequence of its base-1024 digits, most significant  *)
(* first; only counts below 2^53, which `as f64` represents exactly, are   *)
(* used.  Dividing by 1024.0 is exact, so the f64 `size` is a pair of      *)
(* digit sequences <<integer digits, fraction digits>>.                    *)
(***************************************************************************)
\* `x as u32`: truncation toward zero, negative values and NaN give 0
as_u32(x) == IF x[1] = "nan" \/ x[2] < 0 THEN 0 ELSE x[2] \div 10

\* mutation: the cast rounds to the nearest integer
categorize_temperature_rounded(temp) ==
    LET n == IF temp[1] = "nan" \/ temp[2] < 0 THEN 0 ELSE (temp[2] + 5) \div 10
    IN  IF n <= 40 THEN "Cool"
        ELSE IF n <= 60 THEN "Normal"
        ELSE IF n <= 75 THEN "Warm"
        ELSE IF n <= 85 THEN "Hot"
        ELSE "Critical"

categorize_temperature(temp) ==
    LET n == as_u32(temp)
    IN  CASE n \in 0..40 -> "Cool"
          [] n \in 41..60 -> "Normal"
          [] n \in 61..75 -> "Warm"
          [] n \in 76..85 -> "Hot"
          [] n >= 86 -> "Critical"

\* mutation: the Normal band ends below 70 (0..=69)
categorize_disk_usage_exclusive(usage_percent) ==
    LET n == as_u32(usage_percent)
    IN  IF n <= 69 THEN "Normal"
        ELSE IF n <= 85 THEN "Warning"
        ELSE IF n <= 95 THEN "Critical"
        ELSE "Full"

categorize_disk_usage(usage_percent) ==
    LET n == as_u32(usage_percent)
    IN  CASE n \in 0..70 -> "Normal"
          [] n \in 71..85 -> "Warning"
          [] n \in 86..95 -> "Critical"
          [] n >= 96 -> "Full"

UNITS == <<"B", "KB", "MB", "GB", "TB">>
UNITS_DETAILED == <<"B", "KB", "MB", "GB", "TB", "PB">>

\* the value of a digit sequence
RECURSIVE IntVal(_)
IntVal(ds) == IF ds = << >> THEN 0 ELSE IntVal(SubSeq(ds, 1, Len(ds) - 1)) * 1024 + ds[Len(ds)]

AllZero(ds) == \A i \in 1..Len(ds) : ds[i] = 0

\* mutation: the loop runs while size > 1024.0
RECURSIVE scale_strict(_, _, _)
scale_strict(size, unit_index, last) ==
    IF (Len(size[1]) > 2 \/ (Len(size[1]) = 2 /\ (size[1] # <<1, 0>> \/ ~AllZero(size[2]))))
       /\ unit_index < last
    THEN scale_strict(<<SubSeq(size[1], 1, Len(size[1]) - 1),
                        <<size[1][Len(size[1])]>> \o size[2]>>, unit_index + 1, last)
    ELSE <<size, unit_index>>

\* while size >= 1024.0 && unit_index < UNITS.len() - 1 { size /= 1024.0; unit_index += 1 }
RECURSIVE scale(_, _, _)
scale(size, unit_index, last) ==
    IF Len(size[1]) > 1 /\ unit_index < last
    THEN scale(<<SubSeq(size[1], 1, Len(size[1]) - 1),
                 <<size[1][Len(size[1])]>> \o size[2]>>, unit_index + 1, last)
    ELSE <<size, unit_index>>

\* k times a base-1024 fraction: <<integer part, fraction digits>>
RECURSIVE MulSmall(_, _)
MulSmall(ds, k) ==
    IF ds = << >> THEN <<0, << >> >>
    ELSE LET rest == MulSmall(Tail(ds), k)
             v == Head(ds) * k + rest[1]
         IN  <<v \div 1024, <<v % 1024>> \o rest[2]>>

\* the first p decimals of a fraction: <<the decimals as a number, what is left>>
RECURSIVE Decimals(_, _, _)
Decimals(frac, p, acc) ==
    IF p = 0 THEN <<acc, frac>>
    ELSE LET m == MulSmall(frac, 10) IN Decimals(m[2], p - 1, acc * 10 + m[1])

\* a fraction against one half
CmpHalf(frac) ==
    IF frac = << >> \/ frac[1] < 512 THEN "below"
    ELSE IF frac[1] > 512 \/ ~AllZero(Tail(frac)) THEN "above"
    ELSE "tie"

RECURSIVE Pow10(_)
Pow10(p) == IF p = 0 THEN 1 ELSE 10 * Pow10(p - 1)

\* size in units of 10^-p, rounded to nearest, ties to even
Rounded(size, p) ==
    LET d == Decimals(size[2], p, 0)
        v == IntVal(size[1]) * Pow10(p) + d[1]
        c == CmpHalf(d[2])
    IN  IF c = "above" \/ (c = "tie" /\ v % 2 = 1) THEN v + 1 ELSE v

\* p decimal digits of d, zero-padded
RECURSIVE Padded(_, _)
Padded(d, p) ==
    IF p = 0 THEN "" ELSE Padded(d \div 10, p - 1) \o ToString(d % 10)

\* format!("{:.p$}", v / 10^p)
Fixed(v, p) ==
    IF p = 0 THEN ToString(v)
    ELSE ToString(v \div Pow10(p)) \o "." \o Padded(v % Pow10(p), p)

\* mutation of format_bytes: the unit loop compares with >
format_bytes_strict(bytes) ==
    LET r == scale_strict(<<bytes, << >> >>, 0, Len(UNITS) - 1)
    IN  Fixed(Rounded(r[1], 1), 1) \o " " \o UNITS[r[2] + 1]

\* App::format_bytes
format_bytes(bytes) ==
    LET r == scale(<<bytes, << >> >>, 0, Len(UNITS) - 1)
    IN  Fixed(Rounded(r[1], 1), 1) \o " " \o UNITS[r[2] + 1]

precision(unit_index) ==
    CASE unit_index \in 0..1 -> 0
      [] unit_index = 2 -> 1
      [] OTHER -> 2

format_bytes_detailed(bytes) ==
    LET r == scale(<<bytes, << >> >>, 0, Len(UNITS_DETAILED) - 1)
        p == precision(r[2])
    IN  Fixed(Rounded(r[1], p), p) \o " " \o UNITS_DETAILED[r[2] + 1]

\* mutation: the hours are not reduced modulo a day
format_uptime_total_hours(uptime_seconds) ==
    LET days == uptime_seconds \div 86400
        hours == uptime_seconds \div 3600
        minutes == (uptime_seconds % 3600) \div 60
        seconds == uptime_seconds % 60
    IN  IF days > 0
        THEN ToString(days) \o "d " \o ToString(hours) \o "h " \o ToString(minutes)
                 \o "m " \o ToString(seconds) \o "s"
        ELSE IF hours > 0
        THEN ToString(hours) \o "h " \o ToString(minutes) \o "m " \o ToString(seconds) \o "s"
        ELSE IF minutes > 0
        THEN ToString(minutes) \o "m " \o ToString(seconds) \o "s"
        ELSE ToString(seconds) \o "s"

format_uptime(uptime_seconds) ==
    LET days == uptime_seconds \div 86400
        hours == (uptime_seconds % 86400) \div 3600
        minutes == (uptime_seconds % 3600) \div 60
        seconds == uptime_seconds % 60
    IN  IF days > 0
        THEN ToString(days) \o "d " \o ToString(hours) \o "h " \o ToString(minutes)
                 \o "m " \o ToString(seconds) \o "s"
        ELSE IF hours > 0
        THEN ToString(hours) \o "h " \o ToString(minutes) \o "m " \o ToString(seconds) \o "s"
        ELSE IF minutes > 0
        THEN ToString(minutes) \o "m " \o ToString(seconds) \o "s"
        ELSE ToString(seconds) \o "s"

\* Arguments of the helper functions
TempArgs == { <<"num", t>> : t \in (0 - 50)..MaxTenths } \cup { <<"nan", 0>> }

DigitVals == {0, 1, 512, 1023}
Below2p53(ds) == Len(ds) <= 5 \/ (Len(ds) = 6 /\ ds[1] < 8)
ByteArgs ==
    { ds \in UNION { [1..n -> DigitVals] : n \in 1..MaxDigits } :
        (Len(ds) = 1 \/ ds[1] # 0) /\ Below2p53(ds) }

UptimeArgs ==
    { d * 86400 + h * 3600 + m * 60 + sec :
        d \in 0..MaxDays, h \in {0, 1, 23}, m \in {0, 1, 59}, sec \in {0, 1, 30, 59} }

Calls ==
    ({"categorize_temperature", "categorize_disk_usage"} \X TempArgs)
    \cup ({"format_bytes", "format_bytes_detailed"} \X ByteArgs)
    \cup ({"format_uptime"} \X UptimeArgs)

\* App::new: the fields after construction from the refreshed system sys
AppNew(sys) ==
    /\ system = sys
    /\ cpu_history = << [i \in 1..Len(sys.cpus) |-> 0] >>
    /\ cpu_history_len = history_len
    /\ memory_history = << >>
    /\ network_history = << >>
    /\ prev_network_data = None
    /\ cpu_average = Zero
    /\ cpu_scroll = 0

\* main, up to the first loop iteration, and the history variables
Start(f) ==
    /\ feed = f
    /\ pc = "draw"
    /\ elapsed = 0
    /\ top = None
    /\ frame = None
    /\ terminal = [raw_mode |-> TRUE, alternate_screen |-> TRUE, mouse_capture |-> TRUE]
    /\ quit = FALSE
    /\ ticks = 0
    /\ cpu_pushed = cpu_history
    /\ memory_pushed = << >>
    /\ network_pushed = << >>
    /\ tick_prev = None
    /\ tick_elapsed = 0

\* no helper function is under test
Idle == call = None /\ ret = None

Init ==
    /\ \E cores \in 0..MaxCores : \E m \in MemReadings :
          AppNew(Reading(CpuSample(5, cores), m, << >>, m[3]))
    /\ Start("any")
    /\ Idle

InitWindow ==
    /\ \E cores \in 0..MaxCores : AppNew(ScriptReading(0, cores))
    /\ Start("script")
    /\ Idle

InitLive ==
    /\ AppNew(Reading(CpuSample(5, 1), <<512, 1024>>, << >>, << >>))
    /\ Start("live")
    /\ Idle

InitTop ==
    /\ \E t \in ProcTables : AppNew(Reading(<<0>>, <<512, 1024>>, << >>, t))
    /\ Start("table")
    /\ Idle

appVars == <<system, cpu_history, cpu_history_len, memory_history, network_history,
             prev_network_data, cpu_average, cpu_scroll>>
histVars == <<ticks, cpu_pushed, memory_pushed, network_pushed, tick_prev, tick_elapsed>>
fnVars == <<call, ret>>

\* App::update on the reading r that refresh_all obtains
update(r) ==
    LET rx == total_received(r)
        tx == total_transmitted(r)
    IN  /\ system' = r
        /\ cpu_history' = push_cpu(cpu_history, cpu_history_len, r.cpus)
        /\ cpu_average' = cpu_mean(r.cpus)
        /\ memory_history' =
               push_memory(memory_history, cpu_history_len, <<r.used_memory, r.total_memory>>)
        /\ network_history' =
               network_step(network_history, cpu_history_len, prev_network_data, rx, tx)
        /\ prev_network_data' = next_prev(prev_network_data, rx, tx)
        /\ UNCHANGED <<cpu_history_len, cpu_scroll>>
        /\ ticks' = ticks + 1
        /\ cpu_pushed' = Append(cpu_pushed, r.cpus)
        /\ memory_pushed' = Append(memory_pushed, <<r.used_memory, r.total_memory>>)
        /\ network_pushed' =
               IF prev_network_data = None THEN network_pushed
               ELSE Append(network_pushed,
                           <<speed(rx, prev_network_data[1][1]),
                             speed(tx, prev_network_data[1][2])>>)
        /\ tick_prev' = prev_network_data

(***************************************************************************)
(* main (src/main.rs) from the first loop iteration on: Draw, Poll, the    *)
(* tick check, and after a quit key the clean-up.  A `?` on an Err makes   *)
(* main return at once: pc = "err".                                        *)
(***************************************************************************)
DrawTimes == {0, 500}

loopVars == <<pc, elapsed, top, frame, terminal, quit, feed>>

\* `bytes as f64` of a count below 2^31: its base-1024 digits
RECURSIVE Digits(_)
Digits(n) == IF n < 1024 THEN <<n>> ELSE Digits(n \div 1024) \o <<n % 1024>>

\* ui(f, &app): what the draw_* functions read from the App
ui ==
    LET speeds == IF network_history = << >> THEN <<0, 0>>
                  ELSE network_history[Len(network_history)]
    IN  [gauges |-> current_cpu_usage(cpu_history),
         average |-> cpu_average,
         memory_percent |-> memory_usage_percent(system),
         used |-> format_bytes(Digits(system.used_memory)),
         total |-> format_bytes(Digits(system.total_memory)),
         free |-> format_bytes(Digits(system.total_memory - system.used_memory)),
         download |-> format_bytes(Digits(speeds[1])),
         upload |-> format_bytes(Digits(speeds[2]))]

\* mutation: the render takes the latest CPU sample out of the history
\* (pop_back for back().cloned())
Draw_popping ==
    /\ pc = "draw"
    /\ \E d \in DrawTimes : elapsed' = elapsed + d
    /\ frame' = Some(ui)
    /\ top' = Some(top_processes(system))
    /\ pc' = "poll"
    /\ cpu_history' = SubSeq(cpu_history, 1, Len(cpu_history) - 1)
    /\ UNCHANGED <<system, cpu_history_len, memory_history, network_history,
                   prev_network_data, cpu_average, cpu_scroll>>
    /\ UNCHANGED <<histVars, feed, fnVars, terminal, quit>>

\* terminal.draw(|f| ui(f, &app)): the render reads the App; time passes
Draw ==
    /\ pc = "draw"
    /\ \E d \in DrawTimes : elapsed' = elapsed + d
    /\ frame' = Some(ui)
    /\ top' = Some(top_processes(system))
    /\ pc' = "poll"
    /\ UNCHANGED <<appVars, histVars, feed, fnVars, terminal, quit>>

\* terminal.draw(..)? returns the error
DrawError ==
    /\ pc = "draw"
    /\ pc' = "err"
    /\ UNCHANGED <<appVars, histVars, fnVars, elapsed, top, frame, terminal, quit, feed>>

\* event::poll(timeout) returns false after the timeout
PollTimeout ==
    /\ pc = "poll"
    /\ elapsed' = elapsed + saturating_sub(tick_rate, elapsed)
    /\ pc' = "tick"
    /\ UNCHANGED <<appVars, histVars, fnVars, top, frame, terminal, quit, feed>>

\* event::poll(timeout) returns true at once and event::read yields the event
PollEvent ==
    /\ pc = "poll"
    /\ \E key \in {"q", "Esc", "other"} :
          /\ quit' = (key \in {"q", "Esc"})
          /\ pc' = IF key \in {"q", "Esc"} THEN "exit" ELSE "tick"
    /\ UNCHANGED <<appVars, histVars, fnVars, elapsed, top, frame, terminal, feed>>

\* event::poll(timeout)? or event::read()? returns the error
PollError ==
    /\ pc = "poll"
    /\ pc' = "err"
    /\ UNCHANGED <<appVars, histVars, fnVars, elapsed, top, frame, terminal, quit, feed>>

\* mutation: the update runs on every iteration, whatever time has elapsed
Update_unconditional ==
    /\ pc = "tick"
    /\ ticks < TickBound(feed)
    /\ \E r \in Readings(feed, ticks + 1, Len(system.cpus)) : update(r)
    /\ tick_elapsed' = elapsed
    /\ elapsed' = 0
    /\ pc' = "draw"
    /\ UNCHANGED <<feed, top, frame, terminal, quit, fnVars>>

\* last_tick.elapsed() >= tick_rate: app.update(), last_tick = Instant::now()
Update ==
    /\ pc = "tick"
    /\ elapsed >= tick_rate
    /\ ticks < TickBound(feed)
    /\ \E r \in Readings(feed, ticks + 1, Len(system.cpus)) : update(r)
    /\ tick_elapsed' = elapsed
    /\ elapsed' = 0
    /\ pc' = "draw"
    /\ UNCHANGED <<feed, top, frame, terminal, quit, fnVars>>

SkipTick ==
    /\ pc = "tick"
    /\ elapsed < tick_rate
    /\ pc' = "draw"
    /\ UNCHANGED <<appVars, histVars, fnVars, elapsed, top, frame, terminal, quit, feed>>

\* after the break: disable_raw_mode()?
DisableRawMode ==
    /\ pc = "exit"
    /\ \/ terminal' = [terminal EXCEPT !.raw_mode = FALSE] /\ pc' = "leave"
       \/ terminal' = terminal /\ pc' = "err"
    /\ UNCHANGED <<appVars, histVars, fnVars, elapsed, top, frame, quit, feed>>

\* execute!(terminal.backend_mut(), LeaveAlternateScreen, DisableMouseCapture)?
\* the commands are written in order; an Err may come after the first
LeaveScreen ==
    /\ pc = "leave"
    /\ \/ /\ terminal' = [terminal EXCEPT !.alternate_screen = FALSE,
                                          !.mouse_capture = FALSE]
          /\ pc' = "cursor"
       \/ /\ terminal' \in {terminal, [terminal EXCEPT !.alternate_screen = FALSE]}
          /\ pc' = "err"
    /\ UNCHANGED <<appVars, histVars, fnVars, elapsed, top, frame, quit, feed>>

\* terminal.show_cursor()?; Ok(())
ShowCursor ==
    /\ pc = "cursor"
    /\ pc' \in {"ok", "err"}
    /\ UNCHANGED <<appVars, histVars, fnVars, elapsed, top, frame, terminal, quit, feed>>

Next ==
    \/ Draw
    \/ DrawError
    \/ PollTimeout
    \/ PollEvent
    \/ PollError
    \/ Update
    \/ SkipTick
    \/ DisableRawMode
    \/ LeaveScreen
    \/ ShowCursor

Spec == Init /\ [][Next]_vars

SpecWindow == InitWindow /\ [][Next]_vars

\* wall-clock time advances: a render or a poll that takes time
TimePasses == (Draw \/ PollTimeout) /\ elapsed' > elapsed

\* the loop keeps running and time keeps advancing
SpecLive == InitLive /\ [][Next]_vars /\ WF_vars(Next) /\ SF_vars(TimePasses)

\* one render of a process table
SpecTop == InitTop /\ [][Draw]_vars


\* a call of one helper function
InitFn ==
    /\ AppNew(Reading(<<0>>, <<512, 1024>>, << >>, << >>))
    /\ Start("none")
    /\ call \in { Some(c) : c \in Calls }
    /\ ret = None

Returns(f, v) ==
    /\ call # None
    /\ call[1][1] = f
    /\ ret = None
    /\ ret' = Some(v)
    /\ UNCHANGED <<appVars, histVars, loopVars, call>>

CategorizeTemperature ==
    call # None /\ Returns("categorize_temperature", categorize_temperature(call[1][2]))

CategorizeDiskUsage ==
    call # None /\ Returns("categorize_disk_usage", categorize_disk_usage(call[1][2]))

FormatBytes ==
    call # None /\ Returns("format_bytes", format_bytes(call[1][2]))

FormatBytesDetailed ==
    call # None /\ Returns("format_bytes_detailed", format_bytes_detailed(call[1][2]))

FormatUptime ==
    call # None /\ Returns("format_uptime", format_uptime(call[1][2]))

NextFn ==
    \/ CategorizeTemperature
    \/ CategorizeDiskUsage
    \/ FormatBytes
    \/ FormatBytesDetailed
    \/ FormatUptime

SpecFn == InitFn /\ [][NextFn]_vars

(***************************************************************************)
(* Properties                                                              *)
(***************************************************************************)
Back(s) == s[Len(s)]

\* h2 results from h by one push of Back(h2) that evicts nothing or, when the
\* push takes the length over cap, exactly the front element
OnePush(h, h2, cap) ==
    /\ h2 # << >>
    /\ LET a == Append(h, Back(h2))
       IN  IF Len(a) > cap THEN h2 = Tail(a) ELSE h2 = a

\* C1: each history buffer has capacity 240; after N values pushed onto it its
\* length is min(N, 240) and it holds the most recent min(N, 240) pushed
\* values, oldest first.
C1_BoundedGrowth ==
    /\ Len(cpu_history) = Min(Len(cpu_pushed), 240)
    /\ cpu_history = LastN(cpu_pushed, 240)
    /\ Len(memory_history) = Min(Len(memory_pushed), 240)
    /\ memory_history = LastN(memory_pushed, 240)
    /\ Len(network_history) = Min(Len(network_pushed), 240)
    /\ network_history = LastN(network_pushed, 240)

C1_Witness ==
    /\ Len(network_pushed) > 240
    /\ Len(network_history) = 240
    /\ network_history[1] = network_pushed[Len(network_pushed) - 239]
    /\ network_history[1] # network_pushed[1]

\* C2: every history buffer is at most cpu_history_len = 240 long, the limit
\* never changes, and a push evicts at most one element, the front one, and
\* only when the push takes the length over the limit.
C2_LenWithinCapacity ==
    /\ cpu_history_len = 240
    /\ Len(cpu_history) <= cpu_history_len
    /\ Len(memory_history) <= cpu_history_len
    /\ Len(network_history) <= cpu_history_len

C2_PushStep ==
    /\ cpu_history_len' = cpu_history_len
    /\ ticks' = ticks + 1 =>
          /\ OnePush(cpu_history, cpu_history', cpu_history_len)
          /\ OnePush(memory_history, memory_history', cpu_history_len)
          /\ \/ network_history' = network_history
             \/ OnePush(network_history, network_history', cpu_history_len)
    /\ ticks' = ticks =>
          /\ cpu_history' = cpu_history
          /\ memory_history' = memory_history
          /\ network_history' = network_history

C2_Capacity == [](C2_LenWithinCapacity) /\ [][C2_PushStep]_vars

C2_Witness ==
    /\ Len(memory_pushed) > cpu_history_len
    /\ Len(memory_history) = cpu_history_len
    /\ Len(cpu_history) = cpu_history_len

\* C3 as stated: once a tick has run, network_history is exactly one shorter
\* than cpu_history and than memory_history, and no rate sample exists before
\* two counter snapshots have been observed.
C3_DeficitOfOne ==
    /\ ticks >= 1 =>
          /\ Len(network_history) = Len(cpu_history) - 1
          /\ Len(network_history) = Len(memory_history) - 1
    /\ ticks < 2 => network_history = << >>

\* C3 amended: after t >= 1 ticks the lengths are min(t + 1, 240) for
\* cpu_history (App::new seeds it with one sample), min(t, 240) for
\* memory_history and min(t - 1, 240) for network_history: the network
\* history is one shorter than the memory history and two shorter than the
\* CPU history until the longer buffer is full, and all three are 240 long
\* from tick 241 on; no rate sample exists before two counter snapshots have
\* been observed.
C3_WarmUpDeficit ==
    /\ Len(cpu_history) = Min(ticks + 1, 240)
    /\ Len(memory_history) = Min(ticks, 240)
    /\ ticks >= 1 => Len(network_history) = Min(ticks - 1, 240)
    /\ ticks < 2 => network_history = << >>

C3_Witness ==
    /\ ticks >= 241
    /\ Len(network_history) = Len(cpu_history)
    /\ Len(network_history) = Len(memory_history)

\* C4: on every tick after the first the pushed rate is
\* floor(delta / intervalSeconds) per field, intervalSeconds being the elapsed
\* time the loop measured since the previous tick.
C4_MeasuredInterval ==
    (ticks >= 2 /\ tick_elapsed > 0) =>
        /\ network_history # << >>
        /\ Back(network_history) =
              << (saturating_sub(prev_network_data[1][1], tick_prev[1][1]) * 1000)
                     \div tick_elapsed,
                 (saturating_sub(prev_network_data[1][2], tick_prev[1][2]) * 1000)
                     \div tick_elapsed >>

\* the sum of field k over the interfaces of the last reading
RECURSIVE FieldTotal(_, _)
FieldTotal(nets, k) ==
    IF nets = << >> THEN 0 ELSE nets[1][k] + FieldTotal(Tail(nets), k)

\* C5: the first tick pushes no rate sample, and after every tick
\* prev_network_data is Some of the totals aggregated in that tick.
C5_Baseline ==
    /\ ticks = 0 => prev_network_data = None
    /\ ticks <= 1 => network_history = << >> /\ network_pushed = << >>
    /\ ticks >= 1 =>
          prev_network_data =
              << <<FieldTotal(system.networks, 1), FieldTotal(system.networks, 2)>> >>

C5_Witness ==
    /\ ticks = 1
    /\ network_history = << >>
    /\ prev_network_data = << <<1500, 2000>> >>

\* C6: a counter total below the previous one gives a rate of 0 for that
\* field, and no pushed rate is negative; previous (5000, 0), current
\* (4000, 0) gives a download rate of 0.
C6_RegressionClamp ==
    /\ \A i \in 1..Len(network_history) :
          network_history[i][1] >= 0 /\ network_history[i][2] >= 0
    /\ (ticks >= 2) =>
          /\ prev_network_data[1][1] < tick_prev[1][1] => Back(network_history)[1] = 0
          /\ prev_network_data[1][2] < tick_prev[1][2] => Back(network_history)[2] = 0

C6_Witness ==
    /\ ticks >= 2
    /\ tick_prev = << <<5000, 0>> >>
    /\ prev_network_data = << <<4000, 0>> >>
    /\ Back(network_history) = <<0, 0>>

\* the arithmetic mean of a CPU sample, 0.0 for the empty sample
Mean(sample) ==
    IF sample = << >> THEN Zero ELSE Frac(SumSeq(sample), Len(sample))

\* C7: cpu_average is the arithmetic mean of the most recently pushed CPU
\* sample, the back of cpu_history.
C7_AverageOfLatest ==
    /\ cpu_history # << >>
    /\ cpu_average = Mean(Back(cpu_history))

\* used / total * 100 of get_disk_info
disk_usage_percent(total, available) ==
    LET used == total - available
    IN  IF total > 0 THEN Frac(used * 100, total) ELSE Zero

\* C8: a tick with an empty per-core list sets cpu_average to 0.0, and the
\* memory and disk usage percentages are 0.0 when the total is 0.
C8_NoDivisionByZero ==
    /\ (ticks >= 1 /\ system.cpus = << >>) => cpu_average = Zero
    /\ system.total_memory = 0 => memory_usage_percent(system) = Zero
    /\ disk_usage_percent(0, 0) = Zero

\* the position of entry e in the process table
Pos(e) == CHOOSE k \in 1..Len(system.processes) : system.processes[k] = e

StableTies(out) ==
    \A i \in 1..Len(out) : \A j \in 1..Len(out) :
        (i < j /\ out[i][2] = out[j][2]) => Pos(out[i]) < Pos(out[j])

\* C9 as stated: ties keep their input order, and the table
\* [a(50), b(50), c(10)] yields [a, b].
C9_StableTopTwo ==
    top # None =>
        /\ StableTies(top[1])
        /\ system.processes = ProcTable3 => top[1] = <<ProcTable3[1], ProcTable3[2]>>

\* C9 amended: top_processes takes no K, it returns the first 10; any two
\* returned processes with equal CPU percentage are in the order of the
\* process table, and the table [a(50), b(50), c(10)] yields [a, b, c].
C9_StableTop ==
    top # None =>
        /\ StableTies(top[1])
        /\ system.processes = ProcTable3 => top[1] = ProcTable3

C9_Witness ==
    /\ top # None
    /\ Len(system.processes) = 4
    /\ system.processes[1][2] = 10
    /\ system.processes[2][2] = 50
    /\ system.processes[3][2] = 10
    /\ system.processes[4][2] = 50
    /\ top[1] = <<system.processes[2], system.processes[4],
                  system.processes[1], system.processes[3]>>

\* C10: a table of n entries yields min(n, 10) of its entries in
\* non-increasing CPU order, each with at least the CPU percentage of every
\* omitted entry; the empty table yields the empty list.
C10_TopTen ==
    top # None =>
        LET out == top[1]
            procs == system.processes
            kept == {out[i] : i \in 1..Len(out)}
            all == {procs[i] : i \in 1..Len(procs)}
        IN  /\ Len(out) = Min(Len(procs), 10)
            /\ kept \subseteq all
            /\ Cardinality(kept) = Len(out)
            /\ \A i \in 1..(Len(out) - 1) : out[i][2] >= out[i + 1][2]
            /\ \A e \in kept : \A o \in all \ kept : e[2] >= o[2]
            /\ procs = << >> => out = << >>

C10_Witness ==
    /\ top # None
    /\ Len(system.processes) = 11
    /\ Len(top[1]) = 10
    /\ system.processes[1][2] = 10
    /\ system.processes[11][2] = 50
    /\ top[1][1] = system.processes[11]


\* the integer part of a classifier argument (truncation toward zero)
IntPart(x) == IF x[2] >= 0 THEN x[2] \div 10 ELSE 0 - ((0 - x[2]) \div 10)

Returned(f) == call # None /\ ret # None /\ call[1][1] = f

\* C11: categorize_temperature is total and classifies on the integer part of
\* its input: <= 40 Cool, 41-60 Normal, 61-75 Warm, 76-85 Hot, >= 86
\* Critical; 40 is Cool, 41 Normal, 86 Critical, and a value below 0 or just
\* above a boundary has a category too.
C11_TemperatureBands ==
    Returned("categorize_temperature") =>
        LET x == call[1][2]
            ip == IntPart(x)
        IN  /\ ret[1] \in {"Cool", "Normal", "Warm", "Hot", "Critical"}
            /\ x[1] = "num" =>
                  /\ ret[1] = "Cool" <=> ip <= 40
                  /\ ret[1] = "Normal" <=> (41 <= ip /\ ip <= 60)
                  /\ ret[1] = "Warm" <=> (61 <= ip /\ ip <= 75)
                  /\ ret[1] = "Hot" <=> (76 <= ip /\ ip <= 85)
                  /\ ret[1] = "Critical" <=> ip >= 86
            /\ x = <<"num", 400>> => ret[1] = "Cool"
            /\ x = <<"num", 410>> => ret[1] = "Normal"
            /\ x = <<"num", 860>> => ret[1] = "Critical"

C11_Witness ==
    /\ call = << <<"categorize_temperature", <<"num", 409>> >> >>
    /\ ret = << "Cool" >>

\* C12: categorize_disk_usage is total and classifies on the integer part of
\* its input: <= 70 Normal, 71-85 Warning, 86-95 Critical, >= 96 Full; 70 is
\* Normal, 71 Warning, 96 Full.
C12_DiskBands ==
    Returned("categorize_disk_usage") =>
        LET x == call[1][2]
            ip == IntPart(x)
        IN  /\ ret[1] \in {"Normal", "Warning", "Critical", "Full"}
            /\ x[1] = "num" =>
                  /\ ret[1] = "Normal" <=> ip <= 70
                  /\ ret[1] = "Warning" <=> (71 <= ip /\ ip <= 85)
                  /\ ret[1] = "Critical" <=> (86 <= ip /\ ip <= 95)
                  /\ ret[1] = "Full" <=> ip >= 96
            /\ x = <<"num", 700>> => ret[1] = "Normal"
            /\ x = <<"num", 710>> => ret[1] = "Warning"
            /\ x = <<"num", 960>> => ret[1] = "Full"

C12_Witness ==
    /\ call = << <<"categorize_disk_usage", <<"num", 700>> >> >>
    /\ ret = << "Normal" >>

\* t tenths is within 0.05 of the fraction frac: with 20 * frac = c + g,
\* c the integer part, -1 <= c - 2t <= 0 or c - 2t = 1 and g = 0
NearestTenth(frac, t) ==
    LET m == MulSmall(frac, 20)
        c == m[1] - 2 * t
    IN  c = 0 \/ c = 0 - 1 \/ (c = 1 /\ AllZero(m[2]))

\* C13: format_bytes shows the count divided by 1024^i with one decimal, i
\* the largest index of B, KB, MB, GB, TB with 1024^i <= count (B below 1024,
\* TB from 1024^4 up); 1024 is "1.0 KB", 1536 "1.5 KB", 1073741824 "1.0 GB".
C13_FormatBytes ==
    Returned("format_bytes") =>
        LET ds == call[1][2]
            i == Min(Len(ds) - 1, 4)
            q == IntVal(SubSeq(ds, 1, Len(ds) - i))
            frac == SubSeq(ds, Len(ds) - i + 1, Len(ds))
            unit == CASE i = 0 -> "B" [] i = 1 -> "KB" [] i = 2 -> "MB"
                      [] i = 3 -> "GB" [] i = 4 -> "TB"
        IN  /\ \E t \in 0..10 :
                  /\ NearestTenth(frac, t)
                  /\ ret[1] = ToString(q + t \div 10) \o "." \o ToString(t % 10)
                                  \o " " \o unit
            /\ ds = <<1, 0>> => ret[1] = "1.0 KB"
            /\ ds = <<1, 512>> => ret[1] = "1.5 KB"
            /\ ds = <<1, 0, 0, 0>> => ret[1] = "1.0 GB"

C13_Witness ==
    /\ call = << <<"format_bytes", <<1, 512, 0, 0, 0, 0>> >> >>
    /\ ret = << "1536.0 TB" >>

\* C14: format_bytes_detailed renders 1024 as "1 KB", 1536 as "1.5 KB" and
\* 1073741824 as "1.00 GB".
C14_DetailedExamples ==
    Returned("format_bytes_detailed") =>
        /\ call[1][2] = <<1, 0>> => ret[1] = "1 KB"
        /\ call[1][2] = <<1, 512>> => ret[1] = "1.5 KB"
        /\ call[1][2] = <<1, 0, 0, 0>> => ret[1] = "1.00 GB"

\* C15: format_uptime splits S seconds into d days, h < 24 hours, m < 60
\* minutes and s < 60 seconds with d*86400 + h*3600 + m*60 + s = S and prints
\* the fields from the largest non-zero unit down to seconds; 30 is "30s",
\* 3661 "1h 1m 1s", 90061 "1d 1h 1m 1s".
C15_FormatUptime ==
    Returned("format_uptime") =>
        LET S == call[1][2]
        IN  /\ \E d \in 0..(MaxDays + 1) : \E h \in 0..23 : \E m \in 0..59 :
                  LET sec == S - d * 86400 - h * 3600 - m * 60
                      ss == ToString(sec) \o "s"
                      ms == ToString(m) \o "m " \o ss
                      hs == ToString(h) \o "h " \o ms
                      dd == ToString(d) \o "d " \o hs
                  IN  /\ sec \in 0..59
                      /\ ret[1] = IF d > 0 THEN dd
                                  ELSE IF h > 0 THEN hs
                                  ELSE IF m > 0 THEN ms
                                  ELSE ss
            /\ S = 30 => ret[1] = "30s"
            /\ S = 3661 => ret[1] = "1h 1m 1s"
            /\ S = 90061 => ret[1] = "1d 1h 1m 1s"

C15_Witness ==
    /\ call = << <<"format_uptime", 90061>> >>
    /\ ret = << "1d 1h 1m 1s" >>


\* the engine state of the aggregation
engine == <<cpu_history, memory_history, network_history, prev_network_data, cpu_average>>

\* C16: a render pass leaves cpu_history, memory_history, network_history,
\* prev_network_data and cpu_average unchanged; only the tick (App::update)
\* changes them.
C16_RenderStep ==
    /\ pc = "draw" => engine' = engine
    /\ engine' # engine => (pc = "tick" /\ pc' = "draw" /\ ticks' = ticks + 1)

C16_RenderReadsOnly == [][C16_RenderStep]_vars

C16_Witness ==
    /\ pc = "poll"
    /\ frame # None
    /\ network_history # << >>
    /\ Back(network_history) = <<2000, 0>>
    /\ frame[1].download = "2.0 KB"
    /\ frame[1].gauges = Back(cpu_history)
    /\ top # None

\* C17: across ticks the length of each history buffer never decreases, grows
\* by at most one per tick, and stays at the capacity once it has reached it.
C17_Grows(h, h2) ==
    /\ Len(h2) >= Len(h)
    /\ Len(h2) <= Len(h) + 1
    /\ Len(h) = 240 => Len(h2) = 240

C17_LengthStep ==
    /\ C17_Grows(cpu_history, cpu_history')
    /\ C17_Grows(memory_history, memory_history')
    /\ C17_Grows(network_history, network_history')

C17_LengthMonotone == [][C17_LengthStep]_vars

C17_Witness ==
    /\ Len(network_pushed) >= 241
    /\ Len(cpu_history) = 240
    /\ Len(memory_history) = 240
    /\ Len(network_history) = 240
    /\ pc = "draw"

\* one step of main's loop: render, then poll, then at most one update, which
\* needs tick_rate to have elapsed since the previous one
C18_Step ==
    /\ pc = "draw" => (pc' \in {"poll", "err"} /\ ticks' = ticks)
    /\ pc = "poll" => (pc' \in {"tick", "exit", "err"} /\ ticks' = ticks)
    /\ pc = "tick" => (pc' = "draw" /\ ticks' \in {ticks, ticks + 1})
    /\ (pc = "draw" /\ pc' = "poll") => frame' = << ui >>
    /\ ticks' # ticks =>
          (pc = "tick" /\ ticks' = ticks + 1 /\ elapsed >= 250 /\ elapsed' = 0)

C19_RestoredOnReturn ==
    pc \in {"ok", "err"} =>
        /\ ~terminal.raw_mode
        /\ ~terminal.alternate_screen
        /\ ~terminal.mouse_capture

====
